---- MODULE Spec2Model ----
(***************************************************************************)
(* createPausable (src/src/pausable.ts): a Subject of commands, folded by  *)
(* scan into a lifecycle state, gated by switchMap onto the wrapped        *)
(* producer source$ or onto EMPTY, and subscribed once to the sink.        *)
(*                                                                         *)
(* JavaScript runs every handler to completion, so control$.next(c) is one *)
(* action: scan, switchMap's disposal of the previous inner subscription,  *)
(* the subscription to the new inner observable and everything a           *)
(* synchronous producer emits during that subscription.  Time is the fake  *)
(* clock of the tests; it advances in steps of TickMs and fires the timers *)
(* of the live producer subscriptions that fall due.                       *)
(***************************************************************************)
EXTENDS Integers, Sequences, FiniteSets

VARIABLES
  producer,  \* source$: the wrapped producer handed to createPausable
  sink,      \* observer: the sink handed to createPausable
  state,     \* the accumulator of scan: the lifecycle state
  subs,      \* live subscriptions to source$: id -> [count, due, owner]
  inner,     \* switchMap's innerSubscriber: a subscription id, or NoInner
  received,  \* the values delivered to the sink (its next handler, if it has
             \* one, was called with each), in order
  errors,    \* the number of calls of the sink's error handler
  completes, \* the number of calls of the sink's complete handler
  unhandled, \* errors rxjs reported asynchronously (reportUnhandledError)
  closed,    \* TRUE once controlled$'s subscription has ended (by an error)
  done,      \* TRUE iff the latest subscription to source$ has ended by itself
  clock,     \* the (fake) time in ms
  last,      \* what the latest handler did (history)
  started,   \* TRUE once a start command has been processed (history)
  released,  \* TRUE once the caller tried to unsubscribe the handle (history)
  emitted,   \* what a hot producer has emitted, each value with the lifecycle
             \* state it was emitted in (history)
  other,     \* a second handle created over the same producer
  script,    \* the steps still to run (scripted runs only)
  scenario,  \* the whole script of a scripted run
  tw,        \* a stream piped through tapWhile(predicate, sideEffect)
  fl,        \* a stream piped through filter(predicate)
  sk,        \* a stream piped through skipWhile(predicate)
  ch,        \* a stream piped through filter.changed(compareBy)
  to,        \* a stream piped through timeoutWithFallback(timeout, fallback)
  tk,        \* a stream piped through tickWithFallback(timeout, fallback)
  gt         \* a stream piped through groupByTime(min, max)

vars == <<producer, sink, state, subs, inner, received, errors, completes,
          unhandled, closed, done, clock, last, started, released, emitted,
          other, script, scenario, tw, fl, sk, ch, to, tk, gt>>

\* The state of createPausable and of its tests.
pausableVars ==
  <<producer, sink, state, subs, inner, received, errors, completes,
    unhandled, closed, done, clock, last, started, released, emitted, other,
    script, scenario>>

\* The state of the stream operators.
opVars == <<tw, fl, sk, ch, to, tk, gt>>

\* What the steps of one group of operators leave alone: all but tapWhile,
\* all but the filters, all but the timeouts, all but groupByTime.
exceptTap == <<pausableVars, fl, sk, ch, to, tk, gt>>

exceptFilter == <<pausableVars, tw, to, tk, gt>>

exceptTime == <<pausableVars, tw, fl, sk, ch, gt>>

exceptGroup == <<pausableVars, tw, fl, sk, ch, to, tk>>

----------------------------------------------------------------------------
\* Bounds of the model.

MaxTime == 150
MaxReceived == 6
MaxSteps == 4
MaxWait == 4
MaxToggle == 1
MaxEmit == 3
MaxPairTime == 50
MaxPairReceived == 3
MaxPairEmit == 2
MaxTapLen == 3
MaxTapSubs == 2
MaxFilterLen == 3
MaxFilterSubs == 2
MaxTicks == 5
MaxTimeLen == 2
MaxGroupTicks == 5
MaxGroupLen == 4

\* The timeout of the timeout operators, in steps of their clock.
TimeoutTicks == 2

\* The window of groupByTime, in steps of its clock.
MinTicks == 2

\* The step of the clock: the shortest timer period the tests use.
TickMs == 50

----------------------------------------------------------------------------
\* Commands, lifecycle states, producers.

Commands == {"start", "stop", "pause", "resume"}

States == {"stopped", "running", "paused"}

NoInner == 0

\* of(v1, ..., vn): emits its values synchronously at subscription, completes.
OfProducer(vals) ==
  [kind |-> "of", vals |-> vals, period |-> 0, take |-> 0, fails |-> FALSE]

\* interval(period).pipe(take(n)): emits 0, 1, 2, ... every period ms, counted
\* from the subscription, and completes with the n-th value.
IntervalProducer(period, n) ==
  [kind |-> "interval", vals |-> <<>>, period |-> period, take |-> n,
   fails |-> FALSE]

\* A periodic producer that raises an error right after its n-th value.
FailingProducer(period, n) ==
  [kind |-> "interval", vals |-> <<>>, period |-> period, take |-> n,
   fails |-> TRUE]

\* throwError(() => error): raises its error synchronously at subscription.
ThrowProducer ==
  [kind |-> "throw", vals |-> <<>>, period |-> 0, take |-> 0, fails |-> TRUE]

\* The sinks of the tests: a next function, a {next, error} observer, none,
\* and a next function that throws on every value.
Sinks == {"function", "observer", "none", "throwing"}

HasErrorHandler(k) == k = "observer"

\* What a call on the handle puts on control$: the four methods each emit
\* their own literal, command(action) emits its argument.
\* Mutant: pause() emits the literal of resume().
MethodEmits_Swapped(m) ==
  CASE m = "start" -> "start"
    [] m = "stop" -> "stop"
    [] m = "pause" -> "resume"
    [] m = "resume" -> "resume"

MethodEmits(m) ==
  CASE m = "start" -> "start"
    [] m = "stop" -> "stop"
    [] m = "pause" -> "pause"
    [] m = "resume" -> "resume"

CommandEmits(action) == action

Emits(via, name) ==
  IF via = "method" THEN MethodEmits(name) ELSE CommandEmits(name)

\* Values a caller can hand to command() past the type checker.
InvalidNames == {"restart"}

\* Mutant: control$ is one Subject shared by every handle.
Hears_Shared(h, target) == TRUE

\* control$ is created inside createPausable: the pipeline of handle h hears
\* the calls made on handle h only.
Hears(h, target) == h = target

\* The members of the object createPausable returns.
HandleMembers == {"start", "stop", "pause", "resume", "command"}

\* new Subject(): hot; emits when the test calls subject.next(v), to whoever
\* is subscribed at that moment.
SubjectProducer ==
  [kind |-> "subject", vals |-> <<>>, period |-> 0, take |-> 0,
   fails |-> FALSE]

Producers ==
  { OfProducer(<<1, 2, 3>>),
    SubjectProducer,
    ThrowProducer,
    IntervalProducer(100, 10),
    IntervalProducer(50, 20),
    IntervalProducer(50, 3),
    FailingProducer(50, 2) }

----------------------------------------------------------------------------
\* The reducer given to scan.

\* Mutant: start is honoured from stopped only.
reducer_StartFromStopped(s, action) ==
  IF action = "start" /\ s = "stopped" THEN "running"
  ELSE IF action = "stop" THEN "stopped"
  ELSE IF action = "pause" /\ s = "running" THEN "paused"
  ELSE IF action = "resume" /\ s = "paused" THEN "running"
  ELSE s

\* Mutant: pause loses its test of the current state.
reducer_PauseAnywhere(s, action) ==
  IF action = "start" /\ s # "running" THEN "running"
  ELSE IF action = "stop" THEN "stopped"
  ELSE IF action = "pause" THEN "paused"
  ELSE IF action = "resume" /\ s = "paused" THEN "running"
  ELSE s

\* Mutant: resume tests for running instead of paused.
reducer_ResumeWrongState(s, action) ==
  IF action = "start" /\ s # "running" THEN "running"
  ELSE IF action = "stop" THEN "stopped"
  ELSE IF action = "pause" /\ s = "running" THEN "paused"
  ELSE IF action = "resume" /\ s = "running" THEN "running"
  ELSE s

reducer(s, action) ==
  IF action = "start" /\ s # "running" THEN "running"
  ELSE IF action = "stop" THEN "stopped"
  ELSE IF action = "pause" /\ s = "running" THEN "paused"
  ELSE IF action = "resume" /\ s = "paused" THEN "running"
  ELSE s

\* Mutant: only stopped is mapped to EMPTY.
project_PausedKeeps(s) == IF s # "stopped" THEN "source$" ELSE "EMPTY"

\* The projection given to switchMap.
project(s) == IF s = "running" THEN "source$" ELSE "EMPTY"

\* Mutant: the pipeline is seeded with a start.
StartWith_Start == "start"

\* The value startWith feeds the reducer at construction, and scan's seed.
StartWith == "stop"

Seed == "stopped"

----------------------------------------------------------------------------
\* The gate.  A world w is the part of the state a handler works on:
\* [me, sink, subs, inner, received, errors, completes, unhandled, closed,
\* done], me being the handle the world belongs to and subs the subscriptions
\* of all handles, plus the handler's own counts nsub (calls of source$.subscribe), nunsub
\* (live subscriptions it disposed), peak (the most subscriptions to source$
\* alive at once while it ran) and threw (an exception reached the caller).

Max(a, b) == IF a >= b THEN a ELSE b

NoSubs == [i \in {} |-> 0]

\* The live subscriptions to source$ that handle h made.
Owned(f, h) == {i \in DOMAIN f : f[i].owner = h}

Live(w) == Cardinality(Owned(w.subs, w.me))

FreshId(w) ==
  LET n == Cardinality(DOMAIN w.subs) + 1 IN
  CHOOSE i \in 1..n :
    /\ i \notin DOMAIN w.subs
    /\ \A j \in 1..n : j \notin DOMAIN w.subs => i <= j

Without(f, id) == [i \in (DOMAIN f) \ {id} |-> f[i]]

With(f, id, v) == [i \in (DOMAIN f) \cup {id} |-> IF i = id THEN v ELSE f[i]]

\* Mutant: the previous inner subscription is forgotten, not disposed.
Unsubscribe_Leaky(w) == [w EXCEPT !.inner = NoInner]

\* innerSubscriber?.unsubscribe()
Unsubscribe(w) ==
  IF w.inner # NoInner /\ w.inner \in DOMAIN w.subs
  THEN [w EXCEPT !.subs = Without(w.subs, w.inner),
                 !.inner = NoInner,
                 !.nunsub = w.nunsub + 1]
  ELSE [w EXCEPT !.inner = NoInner]

\* Mutant: an exception of the sink's next handler reaches the caller.
SinkNext_Rethrow(w, vals) ==
  [w EXCEPT !.received = w.received \o vals,
            !.threw = w.threw \/ (w.sink = "throwing" /\ vals # <<>>)]

\* controlled$.subscribe(observer), next: the values go to the sink; what its
\* handler throws is caught and reported asynchronously, once per value.
SinkNext(w, vals) ==
  [w EXCEPT !.received = w.received \o vals,
            !.unhandled = IF w.sink = "throwing" THEN w.unhandled + Len(vals)
                          ELSE w.unhandled]

\* controlled$.subscribe(observer), error: the sink's error handler is called;
\* a sink without one has the error reported asynchronously.  The
\* subscription of controlled$ ends, and with it every inner subscription.
SinkError(w) ==
  [w EXCEPT !.errors = IF HasErrorHandler(w.sink) THEN w.errors + 1
                       ELSE w.errors,
            !.unhandled = IF HasErrorHandler(w.sink) THEN w.unhandled
                          ELSE w.unhandled + 1,
            !.closed = TRUE,
            !.subs = [i \in (DOMAIN w.subs) \ Owned(w.subs, w.me) |-> w.subs[i]],
            !.inner = NoInner]

\* Mutant: an error of the inner observable is swallowed.
SubscribeSource_Swallow(p, w, now) ==
  IF p.kind = "of"
  THEN [SinkNext(w, p.vals) EXCEPT !.inner = NoInner,
                 !.done = TRUE,
                 !.nsub = w.nsub + 1,
                 !.peak = Max(w.peak, Live(w) + 1)]
  ELSE IF p.kind = "throw"
  THEN [w EXCEPT !.inner = NoInner,
                 !.done = TRUE,
                 !.nsub = w.nsub + 1,
                 !.peak = Max(w.peak, Live(w) + 1)]
  ELSE LET id == FreshId(w) IN
       [w EXCEPT !.subs = With(w.subs, id, [count |-> 0, due |-> now + p.period, owner |-> w.me]),
                 !.inner = id,
                 !.done = FALSE,
                 !.nsub = w.nsub + 1,
                 !.peak = Max(w.peak, Live(w) + 1)]

\* Mutant: the completion of the inner observable completes controlled$.
SubscribeSource_Complete(p, w, now) ==
  IF p.kind = "of"
  THEN [SinkNext(w, p.vals) EXCEPT !.inner = NoInner,
                 !.done = TRUE,
                 !.completes = w.completes + 1,
                 !.closed = TRUE,
                 !.nsub = w.nsub + 1,
                 !.peak = Max(w.peak, Live(w) + 1)]
  ELSE IF p.kind = "throw"
  THEN [SinkError(w) EXCEPT !.done = TRUE,
                 !.nsub = w.nsub + 1,
                 !.peak = Max(w.peak, Live(w) + 1)]
  ELSE LET id == FreshId(w) IN
       [w EXCEPT !.subs = With(w.subs, id, [count |-> 0, due |-> now + p.period, owner |-> w.me]),
                 !.inner = id,
                 !.done = FALSE,
                 !.nsub = w.nsub + 1,
                 !.peak = Max(w.peak, Live(w) + 1)]

\* source$.subscribe(innerSubscriber) at time now.  The completion of the
\* inner observable is kept by switchMap: controlled$ completes only when
\* control$ has completed, which it never does.
SubscribeSource(p, w, now) ==
  IF p.kind = "of"
  THEN [SinkNext(w, p.vals) EXCEPT !.inner = NoInner,
                 !.done = TRUE,
                 !.nsub = w.nsub + 1,
                 !.peak = Max(w.peak, Live(w) + 1)]
  ELSE IF p.kind = "throw"
  THEN [SinkError(w) EXCEPT !.done = TRUE,
                 !.nsub = w.nsub + 1,
                 !.peak = Max(w.peak, Live(w) + 1)]
  ELSE LET id == FreshId(w) IN
       [w EXCEPT !.subs = With(w.subs, id, [count |-> 0, due |-> now + p.period, owner |-> w.me]),
                 !.inner = id,
                 !.done = FALSE,
                 !.nsub = w.nsub + 1,
                 !.peak = Max(w.peak, Live(w) + 1)]

\* EMPTY.subscribe(innerSubscriber): completes at once, innerSubscriber = null.
SubscribeEmpty(w) == [w EXCEPT !.inner = NoInner]

\* Mutant: the new inner observable is subscribed before the previous inner
\* subscription is disposed.
Switch_SubscribeFirst(p, w, s, now) ==
  LET w1 == IF project(s) = "source$" THEN SubscribeSource(p, w, now)
            ELSE SubscribeEmpty(w)
  IN IF w.inner # NoInner /\ w.inner \in DOMAIN w1.subs
     THEN [w1 EXCEPT !.subs = Without(w1.subs, w.inner),
                     !.nunsub = w1.nunsub + 1]
     ELSE w1

\* Mutant: mergeMap in place of switchMap: inner subscriptions pile up.
Switch_Merge(p, w, s, now) ==
  IF project(s) = "source$" THEN SubscribeSource(p, w, now)
  ELSE SubscribeEmpty(w)

\* switchMap's handler of one lifecycle state.
Switch(p, w, s, now) ==
  LET w1 == Unsubscribe(w) IN
  IF project(s) = "source$" THEN SubscribeSource(p, w1, now)
  ELSE SubscribeEmpty(w1)

\* The timer of subscription id fires: its next value goes to the sink; the
\* n-th value is followed by the completion, or by the error of a failing
\* producer.
Fire(p, w, id) ==
  LET sub == w.subs[id]
      out == SinkNext(w, <<sub.count>>)
  IN IF sub.count + 1 >= p.take /\ p.fails
     THEN [SinkError(out) EXCEPT !.done = TRUE]
     ELSE IF sub.count + 1 >= p.take
     THEN [out EXCEPT !.subs = Without(w.subs, id),
                      !.inner = IF w.inner = id THEN NoInner ELSE w.inner,
                      !.done = IF w.inner = id THEN TRUE ELSE w.done]
     ELSE [out EXCEPT !.subs[id] = [sub EXCEPT !.count = sub.count + 1,
                                               !.due = sub.due + p.period]]

\* The timers of handle w.me that are due; only a periodic producer has any.
Due(p, w, now) ==
  IF p.kind = "interval"
  THEN {id \in Owned(w.subs, w.me) : w.subs[id].due <= now}
  ELSE {}

\* subject.next(v) on a hot producer: v goes to every subscription the handle
\* has alive.
Hear(w, v) == SinkNext(w, [i \in 1..Live(w) |-> v])

RECURSIVE FireAll(_, _, _)
FireAll(p, w, ids) ==
  IF ids = {} THEN w
  ELSE LET id == CHOOSE i \in ids : \A j \in ids : i <= j
       IN FireAll(p, IF id \in DOMAIN w.subs THEN Fire(p, w, id) ELSE w,
                  ids \ {id})

World ==
  [me |-> 1, sink |-> sink, subs |-> subs, inner |-> inner, received |-> received,
   errors |-> errors, completes |-> completes, unhandled |-> unhandled,
   closed |-> closed, done |-> done,
   nsub |-> 0, nunsub |-> 0, peak |-> Cardinality(Owned(subs, 1)),
   threw |-> FALSE]

\* The world of the second handle, over the subscriptions f.
WorldOf(o, f) ==
  [me |-> 2, sink |-> "function", subs |-> f, inner |-> o.inner,
   received |-> o.received, errors |-> o.errors, completes |-> o.completes,
   unhandled |-> o.unhandled, closed |-> o.closed, done |-> o.done,
   nsub |-> 0, nunsub |-> 0, peak |-> Cardinality(Owned(f, 2)),
   threw |-> FALSE]

\* The second handle, in lifecycle state s with world w.
Handle(s, w) ==
  [state |-> s, inner |-> w.inner, received |-> w.received,
   errors |-> w.errors, completes |-> w.completes,
   unhandled |-> w.unhandled, closed |-> w.closed, done |-> w.done]

\* The world before controlled$.subscribe(observer).
World0(h, k) ==
  [me |-> h, sink |-> k, subs |-> NoSubs, inner |-> NoInner, received |-> <<>>,
   errors |-> 0, completes |-> 0, unhandled |-> 0,
   closed |-> FALSE, done |-> FALSE,
   nsub |-> 0, nunsub |-> 0, peak |-> 0, threw |-> FALSE]

\* Mutant: a closed pipeline still observes control$.
Pipeline_Revived(p, w, s, c, now) ==
  LET s1 == reducer(s, c)
  IN [state |-> s1, world |-> Switch(p, [w EXCEPT !.closed = FALSE], s1, now)]

\* Mutant: a distinctUntilChanged between scan and switchMap, so that a
\* command that leaves the lifecycle state as it was never reaches the gate.
Pipeline_Distinct(p, w, s, c, now) ==
  IF w.closed THEN [state |-> s, world |-> w]
  ELSE LET s1 == reducer(s, c)
       IN IF s1 = s THEN [state |-> s1, world |-> w]
          ELSE [state |-> s1, world |-> Switch(p, w, s1, now)]

\* control$.pipe(startWith, scan, switchMap) handling command c in lifecycle
\* state s: the next lifecycle state and the world the gate leaves.  A closed
\* pipeline no longer observes control$.
\* Sinks whose value handler calls pause() or stop() of its own handle when it
\* receives a given value: the call enters control$.next while the producer's
\* synchronous run is still on the stack.
ReentrantSinks == {"pauseAt1", "pauseAt2", "stopAt1", "stopAt2"}

\* The command the handler of a re-entrant sink issues.
Calls(k) == IF k \in {"pauseAt1", "pauseAt2"} THEN "pause" ELSE "stop"

\* The value on which the handler of a re-entrant sink issues it.
CallsAt(k) == IF k \in {"pauseAt1", "stopAt1"} THEN 1 ELSE 2

\* The values of a synchronous run up to and including the first x.
RECURSIVE UpTo(_, _)
UpTo(vals, x) ==
  IF vals = <<>> THEN <<>>
  ELSE IF Head(vals) = x THEN <<x>>
  ELSE <<Head(vals)>> \o UpTo(Tail(vals), x)

\* The run of producer p into sink k reaches a value on which k's handler
\* issues its command.
Interrupted(p, k) ==
  /\ p.kind = "of"
  /\ k \in ReentrantSinks
  /\ \E i \in DOMAIN p.vals : p.vals[i] = CallsAt(k)

\* Mutant: the command issued from the handler waits until the run is over.
Reenter_Queued(p, w, s1, now) ==
  LET w1 == Switch(p, w, s1, now)
      s2 == reducer(s1, Calls(w.sink))
  IN [state |-> s2, world |-> Switch(p, w1, s2, now)]

\* switchMap subscribes to source$ in state s1; the run delivers values until
\* the handler calls pause()/stop(); control$.next runs scan and switchMap on
\* the spot: scan's state is already s1, switchMap unsubscribes the inner
\* subscriber of the run in progress and subscribes to project(s2); back in the
\* producer's loop the subscriber is closed and the loop ends.
Reenter(p, w, s1, now) ==
  LET w1    == Unsubscribe(w)
      heard == SinkNext(w1, UpTo(p.vals, CallsAt(w.sink)))
      s2    == reducer(s1, Calls(w.sink))
      w2    == [heard EXCEPT !.inner = NoInner,
                             !.nsub = w1.nsub + 1,
                             !.nunsub = w1.nunsub + 1,
                             !.peak = Max(w1.peak, Live(w1) + 1)]
  IN [state |-> s2, world |-> Switch(p, w2, s2, now)]

Pipeline(p, w, s, c, now) ==
  IF w.closed THEN [state |-> s, world |-> w]
  ELSE LET s1 == reducer(s, c)
       IN IF project(s1) = "source$" /\ Interrupted(p, w.sink)
          THEN Reenter(p, w, s1, now)
          ELSE [state |-> s1, world |-> Switch(p, w, s1, now)]

\* What a handler did, for the history variable last: the call (via a named
\* method, via command(), or none), the value put on control$, the state it
\* found, and what it changed.
Did(via, c, r) ==
  [via |-> via, cmd |-> c, target |-> 1, from |-> state,
   alive |-> Cardinality(Owned(subs, 1)), dead |-> closed, subscribed |-> r.nsub, disposed |-> r.nunsub,
   peak |-> r.peak, threw |-> r.threw]

----------------------------------------------------------------------------
\* Operations.

\* createPausable(source$, observer): controlled$.subscribe(observer) runs
\* startWith's value through scan and switchMap.
Created(p, k, steps) ==
  LET r == Pipeline(p, World0(1, k), Seed, StartWith, 0)
      w == r.world
      r2 == Pipeline(p, [World0(2, "function") EXCEPT !.subs = w.subs], Seed,
                     StartWith, 0)
  IN /\ producer = p
     /\ other = Handle(r2.state, r2.world)
     /\ emitted = <<>>
     /\ sink = k
     /\ state = r.state
     /\ subs = r2.world.subs
     /\ inner = w.inner
     /\ received = w.received
     /\ errors = w.errors
     /\ completes = w.completes
     /\ unhandled = w.unhandled
     /\ closed = w.closed
     /\ done = w.done
     /\ clock = 0
     /\ last = [via |-> "none", cmd |-> "create", target |-> 1, from |-> Seed,
                alive |-> 0,
                dead |-> FALSE, subscribed |-> w.nsub, disposed |-> w.nunsub,
                peak |-> w.peak, threw |-> w.threw]
     /\ started = FALSE
     /\ released = FALSE
     /\ script = steps
     /\ scenario = steps

\* The handler's world becomes the state.
Becomes(w) ==
  /\ inner' = w.inner
  /\ received' = w.received
  /\ errors' = w.errors
  /\ completes' = w.completes
  /\ unhandled' = w.unhandled
  /\ closed' = w.closed
  /\ done' = w.done

\* start(), stop(), pause(), resume() (via = "method") and command(name)
\* (via = "command"): control$.next(c) with c the value the call emits.
Command(via, name) ==
  LET c == Emits(via, name)
      r == Pipeline(producer, World, state, c, clock)
  IN /\ state' = r.state
     /\ Becomes(r.world)
     /\ subs' = r.world.subs
     /\ last' = Did(via, c, r.world)
     /\ started' = (started \/ c = "start")
     /\ UNCHANGED <<producer, sink, clock, released, emitted, other>>

\* handle.unsubscribe(): the returned object has no such member (the
\* Subscription of controlled$.subscribe is dropped), so the call is a
\* TypeError at the caller and nothing else happens.
HandleUnsubscribe ==
  /\ "unsubscribe" \notin HandleMembers
  /\ released' = TRUE
  /\ last' = Did("none", "unsubscribe", [World EXCEPT !.threw = TRUE])
  /\ UNCHANGED <<producer, sink, state, subs, inner, received, errors,
                 completes, unhandled, closed, done, clock, started, emitted,
                 other>>

\* vi.advanceTimersByTime(TickMs): the timers due by the new time fire.
Advance ==
  LET now == clock + TickMs
      w   == FireAll(producer, World, Due(producer, World, now))
  IN /\ clock' = now
     /\ Becomes(w)
     /\ subs' = w.subs
     /\ last' = Did("none", "tick", w)
     /\ UNCHANGED <<producer, sink, state, started, released, emitted, other>>

\* subject.next(v) in a test, v counting the emissions from 1.
Emit ==
  LET v == Len(emitted) + 1
      w == Hear(World, v)
  IN /\ producer.kind = "subject"
     /\ emitted' = Append(emitted, [value |-> v, state |-> state])
     /\ Becomes(w)
     /\ subs' = w.subs
     /\ last' = Did("none", "emit", w)
     /\ UNCHANGED <<producer, sink, state, clock, started, released, other>>

----------------------------------------------------------------------------
\* tapWhile(predicate, sideEffect) (src/src/tap.ts).  The user's functions are
\* tables over the value: the predicate returns true or false or throws, the
\* side effect returns or throws.

Values == {1, 2}

Predicates == [Values -> {"true", "false", "throw"}]

SideEffects == [Values -> {"ok", "throw"}]

\* tapWhile(pred, effect) applied to a source and subscribed: the closure (all,
\* index), made once for the application and kept over its subscriptions,
\* and, for the current subscription, what the source has emitted (src,
\* srcEnd), what went downstream (out, outEnd, errors) and the calls of the two
\* functions with their arguments.
NewTap(pred, effect) ==
  [pred |-> pred, effect |-> effect, all |-> <<>>, index |-> 0,
   src |-> <<>>, srcEnd |-> "open", out |-> <<>>, outEnd |-> "open",
   errors |-> 0, subscriptions |-> 1,
   predCalls |-> <<>>, effectCalls |-> <<>>]

\* The closure of tapWhile as the two taps leave it when the source emits v
\* to a live subscription, with the calls made and what went downstream.
tapWhileTaps(t, v, live) ==
  LET all1  == Append(t.all, v)
      args  == [value |-> v, index |-> t.index, all |-> all1]
      check == t.pred[v]
      seen  == [t EXCEPT !.src = Append(t.src, v), !.all = all1,
                         !.predCalls = Append(t.predCalls, args)]
  IN IF ~live THEN [t EXCEPT !.src = Append(t.src, v)]
     ELSE IF check = "throw"
     THEN [seen EXCEPT !.outEnd = "error", !.errors = t.errors + 1]
     ELSE IF check = "true" /\ t.effect[v] = "throw"
     THEN [seen EXCEPT !.outEnd = "error", !.errors = t.errors + 1,
                       !.effectCalls = Append(t.effectCalls, args)]
     ELSE IF check = "true"
     THEN [seen EXCEPT !.effectCalls = Append(t.effectCalls, args),
                       !.index = t.index + 1,
                       !.out = Append(t.out, v)]
     ELSE [seen EXCEPT !.index = t.index + 1,
                       !.out = Append(t.out, v)]

\* Mutant: the predicate filters the stream.
tapWhileNext_Filter(t, v) ==
  LET r == tapWhileTaps(t, v, t.outEnd = "open")
  IN IF t.outEnd = "open" /\ t.pred[v] = "false" THEN [r EXCEPT !.out = t.out]
     ELSE r

\* Mutant: the side effect runs whatever the predicate returned.
tapWhileNext_Always(t, v) ==
  LET r == tapWhileTaps(t, v, t.outEnd = "open")
      args == [value |-> v, index |-> t.index, all |-> Append(t.all, v)]
  IN IF t.outEnd = "open" /\ t.pred[v] = "false"
     THEN [r EXCEPT !.effectCalls = Append(t.effectCalls, args)]
     ELSE r

\* Mutant: the taps stay subscribed to the source after they failed.
tapWhileNext_Resume(t, v) == tapWhileTaps(t, v, TRUE)

\* The source emits v: the first tap pushes it on all, the second calls the
\* predicate, the side effect if the predicate returned true, and counts; the
\* value then goes downstream.  What either function throws goes downstream
\* as an error instead, and ends the subscription: what the source emits
\* after that reaches nobody.
tapWhileNext(t, v) == tapWhileTaps(t, v, t.outEnd = "open")

\* The source completes or fails: tap passes the notification on.
tapWhileEnd(t, how) ==
  [t EXCEPT !.srcEnd = how,
            !.outEnd = IF t.outEnd = "open" THEN how ELSE t.outEnd,
            !.errors = IF t.outEnd = "open" /\ how = "error"
                       THEN t.errors + 1 ELSE t.errors]

\* Mutant: every subscription gets a closure of its own.
tapWhileSubscribe_Fresh(t) ==
  [NewTap(t.pred, t.effect) EXCEPT !.subscriptions = t.subscriptions + 1]

\* The stream returned by the application is subscribed again: the source is
\* subscribed afresh, the closure (all, index) is the one of the application.
tapWhileSubscribe(t) ==
  [NewTap(t.pred, t.effect) EXCEPT !.subscriptions = t.subscriptions + 1,
                                   !.all = t.all, !.index = t.index]

\* The source of a subscribed tapWhile stream emits.
TapNext ==
  /\ tw.srcEnd = "open"
  /\ Len(tw.src) < MaxTapLen
  /\ \E v \in Values : tw' = tapWhileNext(tw, v)
  /\ UNCHANGED exceptTap

TapEnd ==
  /\ tw.srcEnd = "open"
  /\ \E how \in {"complete", "error"} : tw' = tapWhileEnd(tw, how)
  /\ UNCHANGED exceptTap

\* A second subscription, once the first has ended.
TapSubscribe ==
  /\ tw.outEnd # "open"
  /\ tw.subscriptions < MaxTapSubs
  /\ tw' = tapWhileSubscribe(tw)
  /\ UNCHANGED exceptTap

----------------------------------------------------------------------------
\* filter(predicate) (src/src/filter.ts) and skipWhile(predicate)
\* (src/unnamed/part_001): a tap that pushes every value on the closure's
\* array all, then the operator of the library, which counts the values of
\* each subscription itself and hands the count to its callback as index.

\* The operator applied to a source and subscribed: as for tapWhile, with the
\* library operator's own index and, for skipWhile, its flag taking.
NewFilter(pred) ==
  [pred |-> pred, all |-> <<>>, index |-> 0, taking |-> FALSE,
   src |-> <<>>, srcEnd |-> "open", out |-> <<>>, outEnd |-> "open",
   errors |-> 0, subscriptions |-> 1, calls |-> <<>>]

\* The operator not in use: never subscribed, so no end that is open.
Unused(t) ==
  [t EXCEPT !.srcEnd = "unused", !.outEnd = "unused", !.subscriptions = 0]

\* Mutant: the rejected values are not kept in all.
filterNext_Forget(t, v) ==
  LET all1  == Append(t.all, v)
      args  == [value |-> v, index |-> t.index, all |-> all1]
      check == t.pred[v]
      seen  == [t EXCEPT !.src = Append(t.src, v), !.all = all1,
                         !.index = t.index + 1,
                         !.calls = Append(t.calls, args)]
  IN IF t.outEnd # "open" THEN [t EXCEPT !.src = Append(t.src, v)]
     ELSE IF check = "throw"
     THEN [seen EXCEPT !.outEnd = "error", !.errors = t.errors + 1]
     ELSE IF check = "true" THEN [seen EXCEPT !.out = Append(t.out, v)]
     ELSE [seen EXCEPT !.all = t.all]

\* The source emits v to filter(pred): v is pushed on all, the predicate is
\* called with the library's index and all, and v goes downstream if it
\* returned true.  What the predicate throws goes downstream as an error.
filterNext(t, v) ==
  LET all1  == Append(t.all, v)
      args  == [value |-> v, index |-> t.index, all |-> all1]
      check == t.pred[v]
      seen  == [t EXCEPT !.src = Append(t.src, v), !.all = all1,
                         !.index = t.index + 1,
                         !.calls = Append(t.calls, args)]
  IN IF t.outEnd # "open" THEN [t EXCEPT !.src = Append(t.src, v)]
     ELSE IF check = "throw"
     THEN [seen EXCEPT !.outEnd = "error", !.errors = t.errors + 1]
     ELSE IF check = "true" THEN [seen EXCEPT !.out = Append(t.out, v)]
     ELSE seen

\* Mutant: the predicate is asked about every value.
skipWhileNext_Retest(t, v) ==
  LET all1  == Append(t.all, v)
      args  == [value |-> v, index |-> t.index, all |-> all1]
      check == t.pred[v]
      seen  == [t EXCEPT !.src = Append(t.src, v), !.all = all1,
                         !.index = t.index + 1,
                         !.calls = Append(t.calls, args)]
  IN IF t.outEnd # "open" THEN [t EXCEPT !.src = Append(t.src, v)]
     ELSE IF check = "throw"
     THEN [seen EXCEPT !.outEnd = "error", !.errors = t.errors + 1]
     ELSE IF check = "true" THEN seen
     ELSE [seen EXCEPT !.taking = TRUE, !.out = Append(t.out, v)]

\* The source emits v to skipWhile(pred): v is pushed on all; while not
\* taking, the predicate is called with the library's index and all, and its
\* first false turns taking on; a value met while taking goes downstream.
skipWhileNext(t, v) ==
  LET all1  == Append(t.all, v)
      args  == [value |-> v, index |-> t.index, all |-> all1]
      check == t.pred[v]
      heard == [t EXCEPT !.src = Append(t.src, v), !.all = all1]
      seen  == [heard EXCEPT !.index = t.index + 1,
                             !.calls = Append(t.calls, args)]
  IN IF t.outEnd # "open" THEN [t EXCEPT !.src = Append(t.src, v)]
     ELSE IF t.taking THEN [heard EXCEPT !.out = Append(t.out, v)]
     ELSE IF check = "throw"
     THEN [seen EXCEPT !.outEnd = "error", !.errors = t.errors + 1]
     ELSE IF check = "true" THEN seen
     ELSE [seen EXCEPT !.taking = TRUE, !.out = Append(t.out, v)]

\* The source completes or fails: every operator passes the notification on.
operatorEnd(t, how) ==
  [t EXCEPT !.srcEnd = how,
            !.outEnd = IF t.outEnd = "open" THEN how ELSE t.outEnd,
            !.errors = IF t.outEnd = "open" /\ how = "error"
                       THEN t.errors + 1 ELSE t.errors]

\* The stream returned by filter(pred)(source) or skipWhile(pred)(source) is
\* subscribed again: the library operator starts afresh (index 0, not
\* taking), the array all is the one of the application.
filterSubscribe(t) ==
  [NewFilter(t.pred) EXCEPT !.subscriptions = t.subscriptions + 1,
                            !.all = t.all]

\* filter.changed(compareBy) (src/src/filter.ts).  The values are objects with
\* two properties; compareBy is a property key, a function of one value, or a
\* function of two values.

ChangedValues == [id : {1, 2}, name : {"a", "b"}]

\* lastValue before the first value: undefined.
NoValue == [id |-> 0, name |-> ""]

Comparers ==
  {[kind |-> "key", by |-> "id"], [kind |-> "key", by |-> "name"],
   [kind |-> "selector", by |-> "id"], [kind |-> "selector", by |-> "name"],
   [kind |-> "compare", by |-> "renamed"], [kind |-> "compare", by |-> "grew"]}

\* The function of two values, called as compareBy(prev, curr).
compareFunction(by, prev, curr) ==
  IF by = "renamed" THEN prev.name # curr.name ELSE curr.id > prev.id

\* hasChanged, as the callback of filter.changed computes it.
hasChanged(compareBy, lastValue, currentValue) ==
  IF compareBy.kind = "compare"
  THEN compareFunction(compareBy.by, lastValue, currentValue)
  ELSE lastValue[compareBy.by] # currentValue[compareBy.by]

NewChanged(compareBy) ==
  [compareBy |-> compareBy, hasValue |-> FALSE, lastValue |-> NoValue,
   src |-> <<>>, srcEnd |-> "open", out |-> <<>>, outEnd |-> "open",
   errors |-> 0, subscriptions |-> 1]

\* The source emits v to filter.changed(compareBy).
changedNext(t, v) ==
  LET heard == [t EXCEPT !.src = Append(t.src, v)]
  IN IF t.outEnd # "open" THEN heard
     ELSE IF ~t.hasValue
     THEN [heard EXCEPT !.hasValue = TRUE, !.lastValue = v,
                        !.out = Append(t.out, v)]
     ELSE IF hasChanged(t.compareBy, t.lastValue, v)
     THEN [heard EXCEPT !.lastValue = v, !.out = Append(t.out, v)]
     ELSE heard

\* The stream returned by filter.changed(compareBy)(source) is subscribed
\* again: hasValue and lastValue are the ones of the application.
changedSubscribe(t) ==
  [NewChanged(t.compareBy) EXCEPT !.subscriptions = t.subscriptions + 1,
                                  !.hasValue = t.hasValue,
                                  !.lastValue = t.lastValue]

FilterNext ==
  /\ fl.srcEnd = "open"
  /\ Len(fl.src) < MaxFilterLen
  /\ \E v \in Values : fl' = filterNext(fl, v)
  /\ UNCHANGED <<exceptFilter, sk, ch>>

FilterEnd ==
  /\ fl.srcEnd = "open"
  /\ \E how \in {"complete", "error"} : fl' = operatorEnd(fl, how)
  /\ UNCHANGED <<exceptFilter, sk, ch>>

FilterSubscribe ==
  /\ fl.outEnd \in {"complete", "error"}
  /\ fl.subscriptions < MaxFilterSubs
  /\ fl' = filterSubscribe(fl)
  /\ UNCHANGED <<exceptFilter, sk, ch>>

SkipNext ==
  /\ sk.srcEnd = "open"
  /\ Len(sk.src) < MaxFilterLen
  /\ \E v \in Values : sk' = skipWhileNext(sk, v)
  /\ UNCHANGED <<exceptFilter, fl, ch>>

SkipEnd ==
  /\ sk.srcEnd = "open"
  /\ \E how \in {"complete", "error"} : sk' = operatorEnd(sk, how)
  /\ UNCHANGED <<exceptFilter, fl, ch>>

SkipSubscribe ==
  /\ sk.outEnd \in {"complete", "error"}
  /\ sk.subscriptions < MaxFilterSubs
  /\ sk' = filterSubscribe(sk)
  /\ UNCHANGED <<exceptFilter, fl, ch>>

ChangedNext ==
  /\ ch.srcEnd = "open"
  /\ Len(ch.src) < MaxFilterLen
  /\ \E v \in ChangedValues : ch' = changedNext(ch, v)
  /\ UNCHANGED <<exceptFilter, fl, sk>>

ChangedEnd ==
  /\ ch.srcEnd = "open"
  /\ \E how \in {"complete", "error"} : ch' = operatorEnd(ch, how)
  /\ UNCHANGED <<exceptFilter, fl, sk>>

ChangedSubscribe ==
  /\ ch.outEnd \in {"complete", "error"}
  /\ ch.subscriptions < MaxFilterSubs
  /\ ch' = changedSubscribe(ch)
  /\ UNCHANGED <<exceptFilter, fl, sk>>

\* The filters not in use.
FilterIdle ==
  /\ fl = Unused(NewFilter([v \in Values |-> "true"]))
  /\ sk = Unused(NewFilter([v \in Values |-> "true"]))
  /\ ch = Unused(NewChanged([kind |-> "key", by |-> "id"]))

\* The operators at rest, in the runs of createPausable.
----------------------------------------------------------------------------
\* timeoutWithFallback and tickWithFallback (src/src/timeout.ts).  The source
\* is hot: it emits and ends when it likes, heard or not.  A fallback emits
\* its values, then completes or fails, delay steps after it is subscribed
\* (0: synchronously, as of(...), EMPTY and throwError do).

Fallbacks ==
  {[vals |-> <<>>, delay |-> 0, end |-> "complete"],
   [vals |-> <<9>>, delay |-> 0, end |-> "complete"],
   [vals |-> <<8, 9>>, delay |-> 0, end |-> "complete"],
   [vals |-> <<>>, delay |-> 0, end |-> "error"],
   [vals |-> <<9>>, delay |-> 1, end |-> "complete"]}

\* source.pipe(timeoutWithFallback(timeout, fallback)) subscribed at time 0:
\* race has subscribed the source and timer(timeout).pipe(switchMap(() =>
\* fallback)); no branch has won.  srcAt, firstAt: when the source emitted,
\* when it first notified.
NewTimeout(fallback) ==
  [fallback |-> fallback, now |-> 0, timer |-> "armed", srcLive |-> TRUE,
   fb |-> "none", fbDue |-> 0, fbSubs |-> 0, winner |-> "none",
   src |-> <<>>, srcAt |-> <<>>, srcEnd |-> "open", firstAt |-> -1,
   out |-> <<>>, outEnd |-> "open", subscriptions |-> 1]

\* The source notifies at t.now: the history of the source.
Notified(t) == [t EXCEPT !.firstAt = IF t.firstAt = -1 THEN t.now ELSE @]

Emitted(t, v) ==
  [Notified(t) EXCEPT !.src = Append(t.src, v),
                      !.srcAt = Append(t.srcAt, t.now)]

\* race unsubscribes the branch of the timer: the timer if it has not fired,
\* the fallback if switchMap has subscribed it.
LoseTimer(t) ==
  [t EXCEPT !.timer = IF t.timer = "armed" THEN "cancelled" ELSE @,
            !.fb = IF t.fb = "waiting" THEN "cancelled" ELSE @]

\* Mutant: the source winning the race leaves the timer running.
timeoutNext_KeepTimer(t, v) ==
  IF t.srcLive /\ t.outEnd = "open"
  THEN [Emitted(t, v) EXCEPT !.winner = "source", !.out = Append(t.out, v)]
  ELSE Emitted(t, v)

\* The source emits v.  While race is subscribed to it, the value wins the
\* race if no branch has yet (the other branch is unsubscribed) and goes
\* downstream.
timeoutNext(t, v) ==
  IF t.srcLive /\ t.outEnd = "open"
  THEN [LoseTimer(Emitted(t, v)) EXCEPT !.winner = "source",
                                       !.out = Append(t.out, v)]
  ELSE Emitted(t, v)

\* The source completes or fails.  race hands the notification of a branch
\* it is subscribed to straight downstream, which ends everything.
timeoutEnd(t, how) ==
  IF t.srcLive /\ t.outEnd = "open"
  THEN [LoseTimer(Notified(t)) EXCEPT !.srcEnd = how, !.outEnd = how,
                                      !.srcLive = FALSE]
  ELSE [Notified(t) EXCEPT !.srcEnd = how]

\* The fallback, subscribed by switchMap, emits its values and ends.  Its
\* first value wins the race if no branch has yet, and the source is
\* unsubscribed; the timer has completed, so the end of the fallback is the
\* end of the branch and goes downstream.
timeoutFallback(t) ==
  [t EXCEPT !.fb = "done",
            !.winner = IF t.fallback.vals # <<>> THEN "fallback" ELSE @,
            !.srcLive = FALSE,
            !.out = t.out \o t.fallback.vals,
            !.outEnd = t.fallback.end]

\* The timer fires: switchMap subscribes the fallback.
timeoutFires(t) ==
  LET s == [t EXCEPT !.timer = "fired", !.fbSubs = t.fbSubs + 1]
  IN IF t.fallback.delay = 0 THEN timeoutFallback(s)
     ELSE [s EXCEPT !.fb = "waiting", !.fbDue = t.now + t.fallback.delay]

\* The clock moves one step; the timers due then run.
timeoutTick(t) ==
  LET s == [t EXCEPT !.now = t.now + 1]
  IN IF s.timer = "armed" /\ s.now = TimeoutTicks THEN timeoutFires(s)
     ELSE IF s.fb = "waiting" /\ s.now = s.fbDue THEN timeoutFallback(s)
     ELSE s

\* source.pipe(tickWithFallback(timeout, fallback)) subscribed at time 0:
\* resetTimeout() has set the timer (due), the source is subscribed.
\* lastHeard, switchedAt, before, forwarded: the time of the latest value
\* heard from the source, the time of the switch to the fallback, the output
\* at the switch, the end of the source that went downstream.
NewTick(fallback) ==
  [fallback |-> fallback, now |-> 0, due |-> TimeoutTicks, armed |-> TRUE,
   isCompleted |-> FALSE, srcLive |-> TRUE,
   fb |-> "none", fbDue |-> 0, fbSubs |-> 0,
   src |-> <<>>, srcAt |-> <<>>, srcEnd |-> "open", firstAt |-> -1,
   out |-> <<>>, outEnd |-> "open", subscriptions |-> 1,
   lastHeard |-> 0, switchedAt |-> -1, before |-> <<>>, forwarded |-> "none"]

\* Mutant: the timeout runs from the subscription only.
tickNext_NoReset(t, v) ==
  IF t.srcLive /\ ~t.isCompleted
  THEN [Emitted(t, v) EXCEPT !.out = Append(t.out, v), !.lastHeard = t.now]
  ELSE Emitted(t, v)

\* The source emits v: the next handler, unless isCompleted, hands it
\* downstream and calls resetTimeout().
tickNext(t, v) ==
  IF t.srcLive /\ ~t.isCompleted
  THEN [Emitted(t, v) EXCEPT !.out = Append(t.out, v),
                             !.due = t.now + TimeoutTicks, !.armed = TRUE,
                             !.lastHeard = t.now]
  ELSE Emitted(t, v)

\* Mutant: the end of the source leaves the timer set and isCompleted unset.
tickEnd_KeepTimer(t, how) ==
  IF t.srcLive /\ ~t.isCompleted
  THEN [Notified(t) EXCEPT !.srcEnd = how, !.outEnd = how,
                           !.forwarded = how, !.srcLive = FALSE]
  ELSE [Notified(t) EXCEPT !.srcEnd = how]

\* The source completes or fails: the handler, unless isCompleted, sets it,
\* clears the timer and hands the notification downstream; the teardown of
\* the output unsubscribes the source.
tickEnd(t, how) ==
  IF t.srcLive /\ ~t.isCompleted
  THEN [Notified(t) EXCEPT !.srcEnd = how, !.isCompleted = TRUE,
                           !.armed = FALSE, !.outEnd = how,
                           !.forwarded = how, !.srcLive = FALSE]
  ELSE [Notified(t) EXCEPT !.srcEnd = how]

\* The fallback emits its values and ends; each goes downstream.
tickFallback(t) ==
  [t EXCEPT !.fb = "done",
            !.out = IF t.outEnd = "open" THEN t.out \o t.fallback.vals ELSE @,
            !.outEnd = IF t.outEnd = "open" THEN t.fallback.end ELSE @]

\* Mutant: the timer's callback leaves the source subscribed.
tickFires_KeepSource(t) ==
  LET s == [t EXCEPT !.armed = FALSE, !.fbSubs = t.fbSubs + 1,
                     !.switchedAt = t.now, !.before = t.out]
  IN IF t.isCompleted THEN [t EXCEPT !.armed = FALSE]
     ELSE IF t.fallback.delay = 0 THEN tickFallback(s)
     ELSE [s EXCEPT !.fb = "waiting", !.fbDue = t.now + t.fallback.delay]

\* The callback of setTimeout: unless isCompleted, it sets it, unsubscribes
\* the source and subscribes the fallback.
tickFires(t) ==
  LET s == [t EXCEPT !.armed = FALSE, !.isCompleted = TRUE,
                     !.srcLive = FALSE, !.fbSubs = t.fbSubs + 1,
                     !.switchedAt = t.now, !.before = t.out]
  IN IF t.isCompleted THEN [t EXCEPT !.armed = FALSE]
     ELSE IF t.fallback.delay = 0 THEN tickFallback(s)
     ELSE [s EXCEPT !.fb = "waiting", !.fbDue = t.now + t.fallback.delay]

tickTick(t) ==
  LET s == [t EXCEPT !.now = t.now + 1]
  IN IF s.armed /\ s.now = s.due THEN tickFires(s)
     ELSE IF s.fb = "waiting" /\ s.now = s.fbDue THEN tickFallback(s)
     ELSE s

TimeoutNext ==
  /\ to.srcEnd = "open"
  /\ Len(to.src) < MaxTimeLen
  /\ \E v \in Values : to' = timeoutNext(to, v)
  /\ UNCHANGED <<exceptTime, tk>>

TimeoutEnd ==
  /\ to.srcEnd = "open"
  /\ \E how \in {"complete", "error"} : to' = timeoutEnd(to, how)
  /\ UNCHANGED <<exceptTime, tk>>

TimeoutTick ==
  /\ to.subscriptions = 1
  /\ to.now < MaxTicks
  /\ to' = timeoutTick(to)
  /\ UNCHANGED <<exceptTime, tk>>

TickNext ==
  /\ tk.srcEnd = "open"
  /\ Len(tk.src) < MaxTimeLen
  /\ \E v \in Values : tk' = tickNext(tk, v)
  /\ UNCHANGED <<exceptTime, to>>

TickEnd ==
  /\ tk.srcEnd = "open"
  /\ \E how \in {"complete", "error"} : tk' = tickEnd(tk, how)
  /\ UNCHANGED <<exceptTime, to>>

TickTick ==
  /\ tk.subscriptions = 1
  /\ tk.now < MaxTicks
  /\ tk' = tickTick(tk)
  /\ UNCHANGED <<exceptTime, to>>

\* The timeouts not in use.
\* timeoutWithFallback never subscribed: race has subscribed neither the
\* source nor timer(timeout), so no timer is set.
UnusedTimeout ==
  [Unused(NewTimeout([vals |-> <<>>, delay |-> 0, end |-> "complete"]))
     EXCEPT !.timer = "unset", !.srcLive = FALSE]

\* tickWithFallback never subscribed: resetTimeout() has not run and the
\* source is not subscribed.
UnusedTick ==
  [Unused(NewTick([vals |-> <<>>, delay |-> 0, end |-> "complete"]))
     EXCEPT !.armed = FALSE, !.due = 0, !.srcLive = FALSE]

TimeIdle ==
  /\ to = UnusedTimeout
  /\ tk = UnusedTick

----------------------------------------------------------------------------
\* groupByTime(min, max) (src/src/groupByTime.ts).  The source is hot and
\* emits 1, 2, 3, ... when it likes; max = 0 stands for no max.

\* The sizes given as max in the runs.
Maxes == {0, 1, 2}

\* A group that went downstream: its values, when, and on what occasion
\* ("tick": the trigger of the branch without max; "size", "window": the two
\* conditions of the next handler; "end": the source ended).
Group(vals, at, why) == [vals |-> vals, at |-> at, why |-> why]

\* source.pipe(groupByTime(MinTicks, max)) subscribed at time 0: without max,
\* buffer(timer(min, min)) has an empty buffer and the trigger is set; with
\* max, buffer = [] and windowStart = Date.now().  left, endAt, unhandled:
\* the size of the buffer when the source ended, when it ended, the errors
\* thrown outside the stream.
NewGroup(max) ==
  [max |-> max, now |-> 0, buffer |-> <<>>, windowStart |-> 0,
   src |-> <<>>, srcAt |-> <<>>, srcEnd |-> "open",
   out |-> <<>>, outEnd |-> "open", endAt |-> 0, left |-> 0,
   unhandled |-> 0, subscriptions |-> 1]

\* Mutant: a group is let grow one past max.
groupNext_Late(t, v) ==
  LET heard   == [t EXCEPT !.src = Append(t.src, v),
                           !.srcAt = Append(t.srcAt, t.now)]
      buffer1 == Append(t.buffer, v)
      full    == Len(buffer1) > t.max
      late    == t.now - t.windowStart >= MinTicks
  IN IF t.max = 0 THEN [heard EXCEPT !.buffer = buffer1]
     ELSE IF full \/ late
     THEN [heard EXCEPT !.out = Append(t.out,
                          Group(buffer1, t.now,
                                IF full THEN "size" ELSE "window")),
                        !.buffer = <<>>, !.windowStart = t.now]
     ELSE [heard EXCEPT !.buffer = buffer1]

\* The source emits v.  Without max, buffer() keeps it.  With max, the next
\* handler pushes it and, when the buffer holds max values or min has passed
\* since windowStart, hands the buffer downstream and starts a new window.
groupNext(t, v) ==
  LET heard   == [t EXCEPT !.src = Append(t.src, v),
                           !.srcAt = Append(t.srcAt, t.now)]
      buffer1 == Append(t.buffer, v)
      full    == Len(buffer1) >= t.max
      late    == t.now - t.windowStart >= MinTicks
  IN IF t.max = 0 THEN [heard EXCEPT !.buffer = buffer1]
     ELSE IF full \/ late
     THEN [heard EXCEPT !.out = Append(t.out,
                          Group(buffer1, t.now,
                                IF full THEN "size" ELSE "window")),
                        !.buffer = <<>>, !.windowStart = t.now]
     ELSE [heard EXCEPT !.buffer = buffer1]

\* Mutant: an error of the source drops the buffer.
groupEnd_Drop(t, how) ==
  LET ended == [t EXCEPT !.srcEnd = how, !.outEnd = how, !.endAt = t.now,
                         !.left = Len(t.buffer)]
      group == Append(t.out, Group(t.buffer, t.now, "end"))
  IN IF t.max = 0
     THEN [ended EXCEPT !.out = IF how = "complete" /\ t.buffer # <<>>
                                THEN group ELSE t.out,
                        !.buffer = <<>>]
     ELSE IF t.buffer = <<>>
     THEN [ended EXCEPT !.unhandled = t.unhandled + 1]
     ELSE IF how = "complete"
     THEN [ended EXCEPT !.out = group, !.unhandled = t.unhandled + 1]
     ELSE [ended EXCEPT !.buffer = <<>>, !.windowStart = t.now,
                        !.unhandled = t.unhandled + 1]

\* The source ends.  Without max, buffer() hands its buffer downstream on
\* completion (the filter drops an empty one) and only the error on error,
\* and lets go of its buffer.  With max, both handlers hand a buffer that is
\* not empty downstream, then the notification: the error handler empties
\* the buffer and sets windowStart, the complete handler leaves both as they
\* are.  The teardown of the output then calls sourceSubscription.unsubscribe
\* detached from its subscription, which throws, and the error is reported
\* outside the stream.
groupEnd(t, how) ==
  LET ended == [t EXCEPT !.srcEnd = how, !.outEnd = how, !.endAt = t.now,
                         !.left = Len(t.buffer)]
      group == Append(t.out, Group(t.buffer, t.now, "end"))
  IN IF t.max = 0
     THEN [ended EXCEPT !.out = IF how = "complete" /\ t.buffer # <<>>
                                THEN group ELSE t.out,
                        !.buffer = <<>>]
     ELSE IF t.buffer = <<>>
     THEN [ended EXCEPT !.unhandled = t.unhandled + 1]
     ELSE IF how = "complete"
     THEN [ended EXCEPT !.out = group, !.unhandled = t.unhandled + 1]
     ELSE [ended EXCEPT !.out = group, !.buffer = <<>>,
                        !.windowStart = t.now,
                        !.unhandled = t.unhandled + 1]

\* Mutant: the trigger hands every buffer downstream, empty or not.
groupTick_Empty(t) ==
  LET s == [t EXCEPT !.now = t.now + 1]
  IN IF s.max = 0 /\ s.outEnd = "open" /\ s.now % MinTicks = 0
     THEN [s EXCEPT !.out = Append(t.out, Group(t.buffer, s.now, "tick")),
                    !.buffer = <<>>]
     ELSE s

\* The clock moves one step.  Without max, timer(min, min) fires at every
\* multiple of min: buffer() hands its buffer downstream and the filter keeps
\* it if it is not empty.  With max there is no timer.
groupTick(t) ==
  LET s == [t EXCEPT !.now = t.now + 1]
  IN IF s.max = 0 /\ s.outEnd = "open" /\ s.now % MinTicks = 0
     THEN IF t.buffer = <<>> THEN s
          ELSE [s EXCEPT !.out = Append(t.out, Group(t.buffer, s.now, "tick")),
                         !.buffer = <<>>]
     ELSE s

GroupNext ==
  /\ gt.srcEnd = "open"
  /\ Len(gt.src) < MaxGroupLen
  /\ gt' = groupNext(gt, Len(gt.src) + 1)
  /\ UNCHANGED exceptGroup

GroupEnd ==
  /\ gt.srcEnd = "open"
  /\ \E how \in {"complete", "error"} : gt' = groupEnd(gt, how)
  /\ UNCHANGED exceptGroup

GroupTick ==
  /\ gt.subscriptions = 1
  /\ gt.now < MaxGroupTicks
  /\ gt' = groupTick(gt)
  /\ UNCHANGED exceptGroup

\* groupByTime not in use.
GroupIdle == gt = Unused(NewGroup(0))

TapIdle ==
  tw = Unused(NewTap([v \in Values |-> "true"], [v \in Values |-> "ok"]))

OpsIdle ==
  /\ TapIdle
  /\ FilterIdle
  /\ TimeIdle
  /\ GroupIdle

----------------------------------------------------------------------------
\* Spec: any call at any time, any producer, any sink.

Init ==
  /\ \E p \in Producers : \E k \in Sinks : Created(p, k, <<>>)
  /\ OpsIdle

Burst == IF producer.kind = "of" THEN Len(producer.vals) ELSE 0

Issue ==
  /\ Len(received) + Burst <= MaxReceived
  /\ \/ \E c \in Commands : Command("method", c)
     \/ \E c \in Commands \cup InvalidNames : Command("command", c)
  /\ UNCHANGED <<script, scenario, opVars>>

Release ==
  /\ HandleUnsubscribe
  /\ UNCHANGED <<script, scenario, opVars>>

Tick ==
  /\ clock < MaxTime
  /\ Len(received) < MaxReceived
  /\ Advance
  /\ UNCHANGED <<script, scenario, opVars>>

SubjectNext ==
  /\ Len(emitted) < MaxEmit
  /\ Len(received) < MaxReceived
  /\ Emit
  /\ UNCHANGED <<script, scenario, opVars>>

Next == Issue \/ Release \/ Tick \/ SubjectNext

Spec == Init /\ [][Next]_vars

\* SpecReentrant: a synchronous producer and a sink that pauses or stops its
\* own handle from inside the value handler.

ReentrantProducers == {OfProducer(<<1, 2, 3>>), OfProducer(<<2, 1>>)}

InitReentrant ==
  /\ \E p \in ReentrantProducers : \E k \in ReentrantSinks : Created(p, k, <<>>)
  /\ OpsIdle

NextReentrant == Issue \/ Release \/ Tick

SpecReentrant == InitReentrant /\ [][NextReentrant]_vars

----------------------------------------------------------------------------
\* SpecScript: a test script (commands and advances of the clock) run to its
\* end against a producer.

Steps == Commands \cup {"tick"}

Ticks(n) == [i \in 1..n |-> "tick"]

RECURSIVE Repeat(_, _)
Repeat(s, n) == IF n = 0 THEN <<>> ELSE s \o Repeat(s, n - 1)

\* start, a ticks, pause, b ticks, resume, k times (pause, resume), c ticks.
PauseResume(a, b, k, c) ==
  <<"start">> \o Ticks(a) \o <<"pause">> \o Ticks(b) \o <<"resume">>
    \o Repeat(<<"pause", "resume">>, k) \o Ticks(c)

Scripts ==
  UNION {[1..n -> Steps] : n \in 0..MaxSteps}
  \cup {PauseResume(a, b, k, c) :
          a \in 1..MaxWait, b \in 0..MaxWait, k \in 0..MaxToggle, c \in 1..MaxWait}

\* The steps of the script run so far.
Executed == SubSeq(scenario, 1, Len(scenario) - Len(script))

ExecutedCommands == SelectSeq(Executed, LAMBDA x : x \in Commands)

InitScript ==
  /\ \E p \in Producers : \E s \in Scripts : Created(p, "function", s)
  /\ OpsIdle

RunCommand ==
  /\ script # <<>>
  /\ Head(script) \in Commands
  /\ Command("method", Head(script))
  /\ script' = Tail(script)
  /\ UNCHANGED <<scenario, opVars>>

RunTick ==
  /\ script # <<>>
  /\ Head(script) = "tick"
  /\ Advance
  /\ script' = Tail(script)
  /\ UNCHANGED <<scenario, opVars>>

NextScript == RunCommand \/ RunTick

SpecScript == InitScript /\ [][NextScript]_vars

----------------------------------------------------------------------------
\* SpecPair: two handles created over the same producer, each called at will.

Unmoved(s, w) == [state |-> s, world |-> w]

\* A call on handle target.
CommandPair(target, via, name) ==
  LET c  == Emits(via, name)
      r1 == IF Hears(1, target)
            THEN Pipeline(producer, World, state, c, clock)
            ELSE Unmoved(state, World)
      w2 == WorldOf(other, r1.world.subs)
      r2 == IF Hears(2, target)
            THEN Pipeline(producer, w2, other.state, c, clock)
            ELSE Unmoved(other.state, w2)
  IN /\ state' = r1.state
     /\ Becomes(r1.world)
     /\ other' = Handle(r2.state, r2.world)
     /\ subs' = r2.world.subs
     /\ last' = [Did(via, c, r1.world) EXCEPT !.target = target]
     /\ started' = (started \/ (c = "start" /\ Hears(1, target)))
     /\ UNCHANGED <<producer, sink, clock, released, emitted>>

\* The clock advances for both handles.
AdvancePair ==
  LET now == clock + TickMs
      w1  == FireAll(producer, World, Due(producer, World, now))
      o   == WorldOf(other, w1.subs)
      w2  == FireAll(producer, o, Due(producer, o, now))
  IN /\ clock' = now
     /\ Becomes(w1)
     /\ other' = Handle(other.state, w2)
     /\ subs' = w2.subs
     /\ last' = Did("none", "tick", w1)
     /\ UNCHANGED <<producer, sink, state, started, released, emitted>>

\* subject.next(v) reaches the live subscriptions of both handles.
EmitPair ==
  LET v  == Len(emitted) + 1
      w1 == Hear(World, v)
      w2 == Hear(WorldOf(other, w1.subs), v)
  IN /\ producer.kind = "subject"
     /\ emitted' = Append(emitted, [value |-> v, state |-> state])
     /\ Becomes(w1)
     /\ other' = Handle(other.state, w2)
     /\ subs' = w2.subs
     /\ last' = Did("none", "emit", w1)
     /\ UNCHANGED <<producer, sink, state, clock, started, released>>

PairProducers ==
  { OfProducer(<<1, 2, 3>>), SubjectProducer, ThrowProducer,
    IntervalProducer(50, 3) }

InitPair ==
  /\ \E p \in PairProducers : Created(p, "function", <<>>)
  /\ OpsIdle

IssueFirst ==
  /\ Len(received) + Burst <= MaxPairReceived
  /\ \E c \in Commands : CommandPair(1, "method", c)
  /\ UNCHANGED <<script, scenario, opVars>>

IssueSecond ==
  /\ Len(other.received) + Burst <= MaxPairReceived
  /\ \E c \in Commands : CommandPair(2, "method", c)
  /\ UNCHANGED <<script, scenario, opVars>>

TickPair ==
  /\ clock < MaxPairTime
  /\ Len(received) < MaxPairReceived
  /\ Len(other.received) < MaxPairReceived
  /\ AdvancePair
  /\ UNCHANGED <<script, scenario, opVars>>

SubjectNextPair ==
  /\ Len(emitted) < MaxPairEmit
  /\ Len(received) < MaxPairReceived
  /\ Len(other.received) < MaxPairReceived
  /\ EmitPair
  /\ UNCHANGED <<script, scenario, opVars>>

NextPair == IssueFirst \/ IssueSecond \/ TickPair \/ SubjectNextPair

SpecPair == InitPair /\ [][NextPair]_vars

----------------------------------------------------------------------------
\* SpecTap: a source piped through tapWhile, for every predicate and side
\* effect; createPausable is at rest.

PausableIdle == Created(OfProducer(<<1, 2, 3>>), "function", <<>>)

InitTap ==
  /\ PausableIdle
  /\ FilterIdle
  /\ TimeIdle
  /\ GroupIdle
  /\ \E pred \in Predicates : \E effect \in SideEffects :
       tw = NewTap(pred, effect)

NextTap == TapNext \/ TapEnd \/ TapSubscribe

SpecTap == InitTap /\ [][NextTap]_vars

----------------------------------------------------------------------------
\* SpecFilter: a source piped through one of filter, skipWhile and
\* filter.changed, for every predicate and comparison.

InitFilter ==
  /\ PausableIdle
  /\ TapIdle
  /\ TimeIdle
  /\ GroupIdle
  /\ \/ /\ \E pred \in Predicates : fl = NewFilter(pred)
        /\ sk = Unused(NewFilter([v \in Values |-> "true"]))
        /\ ch = Unused(NewChanged([kind |-> "key", by |-> "id"]))
     \/ /\ \E pred \in Predicates : sk = NewFilter(pred)
        /\ fl = Unused(NewFilter([v \in Values |-> "true"]))
        /\ ch = Unused(NewChanged([kind |-> "key", by |-> "id"]))
     \/ /\ \E compareBy \in Comparers : ch = NewChanged(compareBy)
        /\ fl = Unused(NewFilter([v \in Values |-> "true"]))
        /\ sk = Unused(NewFilter([v \in Values |-> "true"]))

NextFilter ==
  \/ FilterNext \/ FilterEnd \/ FilterSubscribe
  \/ SkipNext \/ SkipEnd \/ SkipSubscribe
  \/ ChangedNext \/ ChangedEnd \/ ChangedSubscribe

SpecFilter == InitFilter /\ [][NextFilter]_vars

----------------------------------------------------------------------------
\* SpecTimeout: a hot source piped through timeoutWithFallback or
\* tickWithFallback, for every fallback.

InitTimeout ==
  /\ PausableIdle
  /\ TapIdle
  /\ FilterIdle
  /\ GroupIdle
  /\ \/ /\ \E fallback \in Fallbacks : to = NewTimeout(fallback)
        /\ tk = UnusedTick
     \/ /\ \E fallback \in Fallbacks : tk = NewTick(fallback)
        /\ to = UnusedTimeout

NextTimeout ==
  \/ TimeoutNext \/ TimeoutEnd \/ TimeoutTick
  \/ TickNext \/ TickEnd \/ TickTick

SpecTimeout == InitTimeout /\ [][NextTimeout]_vars

----------------------------------------------------------------------------
\* SpecGroup: a hot source piped through groupByTime, without max and with.

InitGroup ==
  /\ PausableIdle
  /\ TapIdle
  /\ FilterIdle
  /\ TimeIdle
  /\ \E max \in Maxes : gt = NewGroup(max)

NextGroup == GroupNext \/ GroupEnd \/ GroupTick

SpecGroup == InitGroup /\ [][NextGroup]_vars

----------------------------------------------------------------------------
\* Claims.

Alive == Cardinality(DOMAIN subs)

\* The transition table of the specification, row by row.
TransitionTable ==
  [stopped |-> [start |-> "running", stop |-> "stopped",
                pause |-> "stopped", resume |-> "stopped"],
   running |-> [start |-> "running", stop |-> "stopped",
                pause |-> "paused", resume |-> "running"],
   paused  |-> [start |-> "running", stop |-> "stopped",
                pause |-> "paused", resume |-> "running"]]

RECURSIVE FoldTable(_, _)
FoldTable(s, cmds) ==
  IF cmds = <<>> THEN s
  ELSE FoldTable(TransitionTable[s][Head(cmds)], Tail(cmds))

\* C1: after any sequence of commands (interleaved with any passage of time)
\* the lifecycle state is the left fold of the transition table over the
\* commands, from stopped; a start leaves running, a stop leaves stopped.
\* (A pipeline closed by a producer error processes no command: left out.)
C1_LeftFold ==
  ~closed =>
    /\ state = FoldTable("stopped", ExecutedCommands)
    /\ (last.cmd = "start" => state = "running")
    /\ (last.cmd = "stop" => state = "stopped")

C1_Witness ==
  /\ ExecutedCommands = <<"start", "pause", "start", "stop">>
  /\ state = "stopped"
  /\ ~closed

\* C2: the sink receives a value only in a step that ends in state running;
\* in state paused or stopped no step, command or passage of time, delivers one
\* unless it moves the state to running.
C2_DeliveredOnlyWhileRunning ==
  [][received' # received => state' = "running"]_vars

C2_Witness ==
  /\ state \in {"paused", "stopped"}
  /\ last.cmd = "tick"
  /\ received # <<>>
  /\ producer.kind = "interval"
  /\ clock >= producer.period * (Len(received) + 2)

\* C3 as stated: one live subscription to the producer when running, none when
\* paused or stopped.
C3_Original ==
  /\ (state = "running" => Alive = 1)
  /\ (state # "running" => Alive = 0)

\* C3 amended: when running, one live subscription (the gate's inner one) unless
\* the latest subscription has ended by itself (the producer completed or raised
\* an error), and then none; none when paused or stopped.
C3_LiveIffRunningAndNotEnded ==
  /\ (state = "running" =>
        /\ Alive = (IF done THEN 0 ELSE 1)
        /\ (~done => inner \in DOMAIN subs))
  /\ (state # "running" => Alive = 0 /\ inner = NoInner)

C3_Witness ==
  /\ state = "running"
  /\ done
  /\ Alive = 0
  /\ producer.kind = "interval"
  /\ last.cmd = "tick"

\* C4: at most one subscription to the producer is alive in every state, and
\* at every point inside a handler (start while running included).
C4_AtMostOneLive ==
  /\ Alive <= 1
  /\ last.peak <= 1

C4_Witness ==
  /\ last.cmd = "start"
  /\ last.from = "running"
  /\ last.alive = 1
  /\ last.disposed = 1
  /\ last.subscribed = 1
  /\ Alive = 1

\* C5 as stated: a command subscribes to the producer once if it is a start or
\* a resume from paused, and never otherwise; pause when not running, resume
\* when not paused and stop when stopped neither subscribe nor dispose.
C5_Original ==
  (last.cmd \in Commands /\ ~last.dead) =>
    /\ last.subscribed =
         (IF last.cmd = "start" \/ (last.cmd = "resume" /\ last.from = "paused")
          THEN 1 ELSE 0)
    /\ ( \/ (last.cmd = "pause" /\ last.from # "running")
         \/ (last.cmd = "resume" /\ last.from # "paused")
         \/ (last.cmd = "stop" /\ last.from = "stopped")
         => last.subscribed = 0 /\ last.disposed = 0 )

\* C6: a pause processed in a state other than running, and a resume processed
\* in a state other than paused, leave the lifecycle state as it was.
C6_PauseResumeIgnored ==
  /\ (last.cmd = "pause" /\ last.from # "running" => state = last.from)
  /\ (last.cmd = "resume" /\ last.from # "paused" => state = last.from)

C6_Witness ==
  /\ last.cmd = "pause"
  /\ last.from = "paused"
  /\ state = "paused"
  /\ ~closed

AllStarts(cmds) == cmds # <<>> /\ \A i \in 1..Len(cmds) : cmds[i] = "start"

\* C7: with the producer of(1, 2, 3), n >= 1 consecutive start commands leave
\* the sink with [1, 2, 3] n times in a row; a start processed while running
\* disposes the subscription that is alive and subscribes once.
C7_RestartOnStart ==
  /\ (producer = OfProducer(<<1, 2, 3>>) /\ AllStarts(Executed) =>
        received = Repeat(<<1, 2, 3>>, Len(Executed)))
  /\ (last.cmd = "start" /\ last.from = "running" /\ ~last.dead =>
        last.subscribed = 1 /\ last.disposed = last.alive)

C7_Witness ==
  /\ producer = OfProducer(<<1, 2, 3>>)
  /\ Executed = <<"start", "start">>
  /\ received = <<1, 2, 3, 1, 2, 3>>

\* The scenario of C8: interval(100); start at 0, pause at 150, resume at 350,
\* run to 450.
C8Producer == IntervalProducer(100, 10)

C8Script ==
  PauseResume(150 \div TickMs, 200 \div TickMs, 0, 100 \div TickMs)

\* C8 as stated: the scenario ends with the sink holding [0, 1].
C8_Original ==
  (producer = C8Producer /\ scenario = C8Script /\ script = <<>>) =>
    received = <<0, 1>>

\* C8 amended: in the scenario the sink holds [0] from t = 100 until the end of
\* the pause and up to t = 400; the resume subscribes afresh, so the value
\* delivered at t = 450 is 0 and the scenario ends with [0, 0].
C8_ResumeRestarts ==
  (producer = C8Producer /\ scenario = C8Script) =>
    /\ (clock >= 100 /\ clock < 450 => received = <<0>>)
    /\ (script = <<>> => received = <<0, 0>>)

C8_Witness ==
  /\ producer = C8Producer
  /\ scenario = C8Script
  /\ script = <<>>
  /\ clock = 450
  /\ state = "running"

\* The scenario of C9: interval(50); start, 100 ms, pause, resume, pause,
\* resume, 100 ms.
C9Producer == IntervalProducer(50, 20)

C9Script == PauseResume(100 \div TickMs, 0, 1, 100 \div TickMs)

\* C9: a resume processed in state paused subscribes to the producer once, and
\* a periodic producer then starts again at its first value; the scenario
\* delivers exactly [0, 1, 0, 1].
C9_ResumeSubscribesAfresh ==
  /\ (last.cmd = "resume" /\ last.from = "paused" /\ ~last.dead =>
        /\ last.subscribed = 1
        /\ (producer.kind = "interval" =>
              inner \in DOMAIN subs /\ subs[inner].count = 0
              /\ subs[inner].due = clock + producer.period))
  /\ (producer = C9Producer /\ scenario = C9Script /\ script = <<>> =>
        received = <<0, 1, 0, 1>>)

C9_Witness ==
  /\ producer = C9Producer
  /\ scenario = C9Script
  /\ script = <<>>
  /\ received = <<0, 1, 0, 1>>

\* C10: construction subscribes to no producer, and until a start has been
\* processed, whatever pause, resume and stop commands are issued and however
\* much time passes, the state is stopped, no subscription to the producer has
\* been made or is alive, and the sink has received nothing.
C10_InertBeforeStart ==
  /\ (last.cmd = "create" => last.subscribed = 0 /\ Alive = 0)
  /\ (~started =>
        /\ state = "stopped"
        /\ Alive = 0
        /\ inner = NoInner
        /\ last.subscribed = 0
        /\ received = <<>>
        /\ errors = 0
        /\ ~closed)

C10_Witness ==
  /\ ~started
  /\ last.cmd \in {"pause", "resume", "stop"}
  /\ clock >= 2 * TickMs
  /\ state = "stopped"


\* C11: with a producer that raises its error at subscription, nothing is ever
\* delivered as a value, and once start has been processed the error has gone
\* to the sink exactly once: to its error handler if it has one, else to the
\* asynchronous report of unhandled errors.
C11_ErrorOnSubscribe ==
  producer = ThrowProducer =>
    /\ received = <<>>
    /\ (started =>
          /\ closed
          /\ errors = (IF HasErrorHandler(sink) THEN 1 ELSE 0)
          /\ unhandled = (IF HasErrorHandler(sink) THEN 0 ELSE 1))
    /\ (~started => errors = 0 /\ unhandled = 0)

C11_Witness ==
  /\ producer = ThrowProducer
  /\ sink = "observer"
  /\ last.cmd = "start"
  /\ ~last.dead
  /\ errors = 1
  /\ received = <<>>

\* C12: once the producer's error has ended the pipeline, no step of any kind
\* subscribes to the producer or calls a handler of the sink again.
C12_TerminatedForGood ==
  [][closed =>
       /\ closed'
       /\ received' = received
       /\ errors' = errors
       /\ completes' = completes
       /\ unhandled' = unhandled
       /\ subs' = subs
       /\ last'.subscribed = 0]_vars

C12_Witness ==
  /\ closed
  /\ last.dead
  /\ last.cmd = "start"
  /\ producer = FailingProducer(50, 2)
  /\ received = <<0, 1>>
  /\ errors = 1

\* C13 as stated: a producer that has completed while running has had its
\* completion forwarded to the sink.
C13_Original ==
  (state = "running" /\ done /\ ~closed) => completes >= 1

\* C13 amended: while running the producer's values and errors are forwarded,
\* its completion is not: the sink's complete handler is never called and the
\* pipeline stays subscribed after the producer has completed.
C13_CompletionKept ==
  /\ completes = 0
  /\ (last.subscribed = 1 /\ producer.kind = "of" =>
        /\ Len(received) >= Len(producer.vals)
        /\ SubSeq(received, Len(received) - Len(producer.vals) + 1,
                   Len(received)) = producer.vals)
  /\ (closed => errors + unhandled >= 1 /\ producer.fails)
  /\ (state = "running" /\ done /\ ~producer.fails => ~closed)

C13_Witness ==
  /\ state = "running"
  /\ done
  /\ ~closed
  /\ completes = 0
  /\ producer.kind = "of"
  /\ received = <<1, 2, 3>>

\* C14 as stated: once the caller has unsubscribed the handle no subscription
\* to the producer is alive and no further value is delivered.
C14_Original ==
  [][released' =>
       /\ Cardinality(DOMAIN subs') = 0
       /\ (released => received' = received)]_vars

\* C15: in every reachable state and for each of the four names, command(c)
\* and the method c() leave the same lifecycle state, the same subscriptions
\* and the same delivered values.
C15_CommandMatchesMethod ==
  \A c \in Commands :
    Pipeline(producer, World, state, Emits("command", c), clock)
      = Pipeline(producer, World, state, Emits("method", c), clock)

C15_Witness ==
  /\ last.via = "command"
  /\ last.cmd = "resume"
  /\ last.from = "paused"
  /\ last.subscribed = 1
  /\ state = "running"

\* C16 as stated: command(name) with a name outside the four commands fails at
\* the caller and leaves the lifecycle state and the subscription as they were.
C16_Original ==
  (last.via = "command" /\ last.cmd \in InvalidNames) =>
    /\ last.threw
    /\ state = last.from
    /\ last.subscribed = 0
    /\ last.disposed = 0

\* C17: start(), stop(), pause() and resume() never throw to their caller,
\* whatever the producer and the sink do.
C17_MethodsNeverThrow ==
  last.via = "method" => ~last.threw

C17_Witness ==
  /\ sink = "throwing"
  /\ last.via = "method"
  /\ last.cmd = "start"
  /\ received = <<1, 2, 3>>
  /\ unhandled = 3
  /\ ~last.threw


\* C18: with two handles over one producer, a call on one handle leaves the
\* other handle's lifecycle state, its subscriptions to the producer and
\* everything its sink has received as they were.
C18_HandlesIndependent ==
  [][/\ (last'.cmd \in Commands /\ last'.target = 2 =>
          /\ state' = state
          /\ inner' = inner
          /\ received' = received
          /\ errors' = errors
          /\ closed' = closed
          /\ done' = done
          /\ Owned(subs', 1) = Owned(subs, 1)
          /\ \A i \in Owned(subs, 1) : subs'[i] = subs[i])
     /\ (last'.cmd \in Commands /\ last'.target = 1 =>
          /\ other' = other
          /\ Owned(subs', 2) = Owned(subs, 2)
          /\ \A i \in Owned(subs, 2) : subs'[i] = subs[i])]_vars

C18_Witness ==
  /\ last.target = 2
  /\ last.cmd = "stop"
  /\ other.state = "stopped"
  /\ other.received # <<>>
  /\ Owned(subs, 2) = {}
  /\ state = "running"
  /\ inner \in Owned(subs, 1)

\* The values a hot producer emitted while the lifecycle state was running.
RunningValues ==
  LET r == SelectSeq(emitted, LAMBDA e : e.state = "running")
  IN [i \in 1..Len(r) |-> r[i].value]

\* C19: over a hot producer the sink has received exactly the values emitted
\* while the state was running, in emission order; what was emitted before
\* start, while paused or while stopped never arrives.
C19_HotValues ==
  producer.kind = "subject" => received = RunningValues

C19_Witness ==
  /\ producer.kind = "subject"
  /\ Len(emitted) = 3
  /\ emitted[1].state = "stopped"
  /\ emitted[2].state = "running"
  /\ emitted[3].state = "paused"
  /\ last.cmd = "resume"
  /\ state = "running"
  /\ received = <<2>>


\* One of tapWhile's two functions threw in the current subscription.
TapThrew ==
  \E i \in 1..Len(tw.predCalls) :
    LET v == tw.predCalls[i].value
    IN \/ tw.pred[v] = "throw"
       \/ tw.pred[v] = "true" /\ tw.effect[v] = "throw"

\* C20: as long as neither function throws, whatever the predicate returns,
\* the output of tapWhile carries the source's values, unchanged and in order,
\* and ends as the source ends.
C20_TapPassesThrough ==
  ~TapThrew => tw.out = tw.src /\ tw.outEnd = tw.srcEnd

C20_Witness ==
  /\ tw.pred[1] = "false"
  /\ tw.pred[2] = "true"
  /\ tw.src = <<1, 2, 1>>
  /\ tw.out = <<1, 2, 1>>
  /\ tw.outEnd = "complete"

\* The call of the predicate on value v makes tapWhile fail: the predicate
\* throws, or it returns true and the side effect throws.
TapFails(v) ==
  \/ tw.pred[v] = "throw"
  \/ tw.pred[v] = "true" /\ tw.effect[v] = "throw"

\* C21: tapWhile calls the predicate once for every value the source emits
\* to it, in order, and the side effect once for each of those values for
\* which the predicate returned true, and for no other; for a source without
\* values neither function is called.
C21_CalledOncePerValue ==
  /\ Len(tw.predCalls) <= Len(tw.src)
  /\ ~TapThrew => Len(tw.predCalls) = Len(tw.src)
  /\ \A i \in 1..Len(tw.predCalls) : tw.predCalls[i].value = tw.src[i]
  /\ tw.effectCalls =
       SelectSeq(tw.predCalls, LAMBDA c : tw.pred[c.value] = "true")

C21_Witness ==
  /\ tw.pred[1] = "false"
  /\ tw.pred[2] = "true"
  /\ tw.src = <<1, 2, 1>>
  /\ Len(tw.predCalls) = 3
  /\ Len(tw.effectCalls) = 1
  /\ tw.effectCalls[1].value = 2
  /\ tw.srcEnd = "complete"

\* C23: when the predicate or the side effect throws on a value, the
\* subscriber gets one error, the values before that one and no other went
\* downstream, and the call that threw is the last one, whatever the source
\* emits afterwards.
C23_ThrowEndsTheTap ==
  TapThrew =>
    LET n == Len(tw.predCalls)
    IN /\ tw.errors = 1
       /\ tw.outEnd = "error"
       /\ TapFails(tw.predCalls[n].value)
       /\ \A i \in 1..(n - 1) : ~TapFails(tw.predCalls[i].value)
       /\ tw.out = SubSeq(tw.src, 1, n - 1)
       /\ Len(tw.effectCalls) <= n

C23_Witness ==
  /\ TapThrew
  /\ tw.pred[1] = "true"
  /\ tw.effect[1] = "ok"
  /\ tw.effect[2] = "throw"
  /\ tw.src = <<1, 2, 1>>
  /\ tw.out = <<1>>
  /\ Len(tw.predCalls) = 2
  /\ Len(tw.effectCalls) = 2
  /\ tw.errors = 1

\* The arguments of the calls are (value, index, all) with value the current
\* value, index its position among the values of the source and all the
\* values so far, the current one included.
ArgumentsAgree(calls) ==
  \A i \in 1..Len(calls) :
    /\ Len(calls[i].all) = calls[i].index + 1
    /\ calls[i].all[calls[i].index + 1] = calls[i].value

IndexIsPosition(calls) == \A i \in 1..Len(calls) : calls[i].index = i - 1

\* C22 as stated: on every call of the predicate of filter, skipWhile and
\* tapWhile, and of tapWhile's side effect, all.length = index + 1, all[index]
\* = value and index is the position of the value in the source.
C22_Original ==
  /\ ArgumentsAgree(fl.calls) /\ IndexIsPosition(fl.calls)
  /\ ArgumentsAgree(sk.calls) /\ IndexIsPosition(sk.calls)
  /\ ArgumentsAgree(tw.predCalls) /\ IndexIsPosition(tw.predCalls)
  /\ ArgumentsAgree(tw.effectCalls)

\* The values of the calls, in order.
CalledWith(calls) == [i \in 1..Len(calls) |-> calls[i].value]

\* C24: the output of filter is the subsequence of the source's values for
\* which the predicate returned true, the predicate is called once for every
\* value, in order, and the array all it is given ends with all the values of
\* the source so far, the rejected ones included.
C24_FilterSubsequence ==
  LET n == Len(fl.calls)
  IN /\ n <= Len(fl.src)
     /\ fl.outEnd = "open" => n = Len(fl.src)
     /\ CalledWith(fl.calls) = SubSeq(fl.src, 1, n)
     /\ fl.out = SelectSeq(SubSeq(fl.src, 1, n), LAMBDA v : fl.pred[v] = "true")
     /\ \A i \in 1..n :
          LET all == fl.calls[i].all
          IN /\ Len(all) >= i
             /\ SubSeq(all, Len(all) - i + 1, Len(all)) = SubSeq(fl.src, 1, i)

C24_Witness ==
  /\ fl.pred[1] = "false"
  /\ fl.pred[2] = "true"
  /\ fl.subscriptions = 1
  /\ fl.src = <<1, 2, 1>>
  /\ fl.out = <<2>>
  /\ Len(fl.calls) = 3
  /\ fl.calls[3].all = <<1, 2, 1>>
  /\ fl.outEnd = "complete"

\* The position in s of the first value for which the predicate of skipWhile
\* does not return true, Len(s) + 1 if there is none.
RECURSIVE FirstNotTrue(_, _)
FirstNotTrue(s, i) ==
  IF i > Len(s) \/ sk.pred[s[i]] # "true" THEN i ELSE FirstNotTrue(s, i + 1)

\* C25: the output of skipWhile is the suffix of the source that starts at
\* the first value for which the predicate returns false, empty if there is
\* none; the predicate is called for the values up to that one and for no
\* later value.
C25_SkipWhileSuffix ==
  LET k == FirstNotTrue(sk.src, 1)
      n == Len(sk.src)
  IN /\ k > n => sk.out = <<>> /\ CalledWith(sk.calls) = sk.src
     /\ k <= n =>
          /\ CalledWith(sk.calls) = SubSeq(sk.src, 1, k)
          /\ sk.pred[sk.src[k]] = "false" => sk.out = SubSeq(sk.src, k, n)
          /\ sk.pred[sk.src[k]] = "throw" =>
               sk.out = <<>> /\ sk.outEnd = "error"

C25_Witness ==
  /\ sk.pred[1] = "true"
  /\ sk.pred[2] = "false"
  /\ sk.src = <<1, 2, 1>>
  /\ sk.out = <<2, 1>>
  /\ Len(sk.calls) = 2
  /\ sk.outEnd = "complete"

\* What C26 says of the values s under compareBy: the first, then each value
\* that differs from the last one kept.
RECURSIVE ChangedOf(_, _, _, _)
ChangedOf(compareBy, s, kept, first) ==
  IF s = <<>> THEN <<>>
  ELSE IF first \/ hasChanged(compareBy, kept, Head(s))
  THEN <<Head(s)>> \o ChangedOf(compareBy, Tail(s), Head(s), FALSE)
  ELSE ChangedOf(compareBy, Tail(s), kept, FALSE)

\* C26 as stated: the output of filter.changed is the first value of the
\* source, then each value that differs under compareBy from the last value
\* emitted.
C26_Original == ch.out = ChangedOf(ch.compareBy, ch.src, NoValue, TRUE)

\* C27: when the first notification of the source comes before the timeout
\* has elapsed, the output of timeoutWithFallback is that of the source from
\* then on (values, completion, error), however long the source is silent
\* later; the fallback is never subscribed.
C27_SourceWinsForGood ==
  (to.firstAt # -1 /\ to.firstAt < TimeoutTicks) =>
    /\ to.fbSubs = 0
    /\ to.out = to.src
    /\ to.outEnd = to.srcEnd

C27_Witness ==
  /\ to.fallback.vals = <<9>>
  /\ to.src = <<1, 2>>
  /\ to.srcAt = <<1, 4>>
  /\ to.out = <<1, 2>>
  /\ to.now = 5
  /\ to.outEnd = "complete"
  /\ to.fbSubs = 0

\* C28 as stated: when the source has emitted nothing at the timeout, the
\* output of timeoutWithFallback is that of the fallback: its values, then
\* its end, and nothing the source emits afterwards.
C28_Original ==
  to.timer = "fired" =>
    /\ to.out = IF to.fb = "done" THEN to.fallback.vals ELSE <<>>
    /\ to.outEnd = IF to.fb = "done" THEN to.fallback.end ELSE "open"

\* C29: tickWithFallback switches to the fallback exactly when the timeout
\* has elapsed since the later of the subscription and the latest value of
\* the source: not before, and it is never late while it listens to the
\* source.
C29_TimeoutRestarts ==
  /\ tk.switchedAt # -1 => tk.switchedAt = tk.lastHeard + TimeoutTicks
  /\ tk.fbSubs > 0 <=> tk.switchedAt # -1
  /\ (tk.srcLive /\ tk.switchedAt = -1) => tk.now - tk.lastHeard < TimeoutTicks

C29_Witness ==
  /\ tk.fallback.vals = <<9>>
  /\ tk.src = <<1, 2>>
  /\ tk.srcAt = <<1, 2>>
  /\ tk.lastHeard = 2
  /\ tk.switchedAt = 4
  /\ tk.out = <<1, 2, 9>>
  /\ tk.outEnd = "complete"

\* C30: once the timeout of tickWithFallback has fired the source is
\* unsubscribed and nothing of it goes downstream: the output is what it was
\* at the switch, then the values of the fallback, then the end of the
\* fallback.  The end of the source going downstream and the switch exclude
\* each other, and there is one switch at most.
C30_SwitchIsFinal ==
  /\ tk.fbSubs <= 1
  /\ tk.forwarded # "none" => tk.fbSubs = 0
  /\ tk.fbSubs > 0 =>
       /\ ~tk.srcLive
       /\ tk.forwarded = "none"
       /\ tk.out = tk.before \o (IF tk.fb = "done" THEN tk.fallback.vals
                                 ELSE <<>>)
       /\ tk.outEnd = IF tk.fb = "done" THEN tk.fallback.end ELSE "open"

C30_Witness ==
  /\ tk.fallback.vals = <<8, 9>>
  /\ tk.fbSubs = 1
  /\ tk.before = <<1>>
  /\ tk.src = <<1, 2>>
  /\ tk.srcEnd = "error"
  /\ tk.out = <<1, 8, 9>>
  /\ tk.outEnd = "complete"

\* C31: when the source of tickWithFallback completes or fails before the
\* timeout has elapsed, the output ends the same way after the values of the
\* source, no timer is left pending and the fallback is never subscribed,
\* whatever time passes.
C31_SourceEndIsFinal ==
  tk.forwarded # "none" =>
    /\ tk.srcEnd = tk.forwarded
    /\ tk.outEnd = tk.forwarded
    /\ tk.out = tk.src
    /\ ~tk.armed
    /\ tk.fbSubs = 0
    /\ tk.fb = "none"

C31_Witness ==
  /\ tk.fallback.vals = <<9>>
  /\ tk.src = <<1>>
  /\ tk.srcAt = <<1>>
  /\ tk.forwarded = "error"
  /\ tk.firstAt = 1
  /\ tk.now = 5
  /\ tk.out = <<1>>
  /\ tk.outEnd = "error"
  /\ tk.fbSubs = 0

\* The values of the groups that went downstream, one after the other.
RECURSIVE Flatten(_)
Flatten(groups) ==
  IF groups = <<>> THEN <<>> ELSE Head(groups).vals \o Flatten(Tail(groups))

\* The values the source of groupByTime emitted from time a on and before
\* time b, in order.  The source emits 1, 2, 3, ...: a value is its position.
ArrivedIn(a, b) ==
  SelectSeq(gt.src, LAMBDA v : a <= gt.srcAt[v] /\ gt.srcAt[v] < b)

\* The multiples of min at which the trigger has fired.
TicksSoFar ==
  {k \in 1..gt.now : k % MinTicks = 0 /\ (gt.outEnd = "open" \/ k <= gt.endAt)}

\* C32: without max, at each multiple of min groupByTime emits the values
\* that arrived since the previous multiple, in order, and nothing if none
\* arrived; no group is empty and no value is in two groups.
C32_GroupsOnTicks ==
  gt.max = 0 =>
    /\ \A i \in 1..Len(gt.out) : gt.out[i].vals # <<>>
    /\ \A i \in 1..Len(gt.out) :
         gt.out[i].why = "tick" =>
           /\ gt.out[i].at % MinTicks = 0
           /\ gt.out[i].vals = ArrivedIn(gt.out[i].at - MinTicks, gt.out[i].at)
    /\ \A k \in TicksSoFar :
         ArrivedIn(k - MinTicks, k) # <<>> =>
           \E i \in 1..Len(gt.out) :
             gt.out[i].at = k /\ gt.out[i].why = "tick"
    /\ Flatten(gt.out) = SubSeq(gt.src, 1, Len(Flatten(gt.out)))

C32_Witness ==
  /\ gt.max = 0
  /\ gt.srcAt = <<0, 1, 4, 4>>
  /\ gt.now = 5
  /\ gt.outEnd = "open"
  /\ Len(gt.out) = 1
  /\ gt.out[1].vals = <<1, 2>>
  /\ gt.out[1].at = 2
  /\ gt.buffer = <<3, 4>>

\* C33: with max, every group has between 1 and max values, the buffer never
\* holds max values after a value was handled, the groups one after the other
\* are a prefix of the values of the source in order, and while the output is
\* open the values not yet in a group are the buffer.
C33_GroupsWithinMax ==
  gt.max > 0 =>
    /\ \A i \in 1..Len(gt.out) :
         Len(gt.out[i].vals) >= 1 /\ Len(gt.out[i].vals) <= gt.max
    /\ Len(gt.buffer) < gt.max
    /\ Len(Flatten(gt.out)) <= Len(gt.src)
    /\ Flatten(gt.out) = SubSeq(gt.src, 1, Len(Flatten(gt.out)))
    /\ gt.outEnd = "open" => Flatten(gt.out) \o gt.buffer = gt.src

C33_Witness ==
  /\ gt.max = 2
  /\ gt.srcAt = <<0, 0, 1>>
  /\ Len(gt.out) = 1
  /\ gt.out[1] = Group(<<1, 2>>, 0, "size")
  /\ gt.buffer = <<3>>
  /\ gt.outEnd = "open"

\* C34 as stated: with max, the first and the last value of every group
\* arrived less than min apart.
C34_Original ==
  gt.max > 0 =>
    \A i \in 1..Len(gt.out) :
      LET vals == gt.out[i].vals
      IN gt.srcAt[vals[Len(vals)]] - gt.srcAt[vals[1]] < MinTicks

\* C35: with max, when the source ends with values in the buffer they go
\* downstream as one last group before the end does, so that every value of
\* the source is in exactly one group when the output has ended; with an
\* empty buffer the end goes downstream alone.
C35_LastGroupOnEnd ==
  (gt.max > 0 /\ gt.outEnd \in {"complete", "error"}) =>
    LET n    == Len(gt.out)
        ends == {i \in 1..n : gt.out[i].why = "end"}
    IN /\ gt.outEnd = gt.srcEnd
       /\ Flatten(gt.out) = gt.src
       /\ ends \subseteq {n}
       /\ gt.left > 0 <=> ends = {n}
       /\ gt.left > 0 =>
            /\ Len(gt.out[n].vals) = gt.left
            /\ gt.out[n].at = gt.endAt

C35_Witness ==
  /\ gt.max = 2
  /\ gt.src = <<1, 2, 3>>
  /\ gt.srcEnd = "error"
  /\ gt.outEnd = "error"
  /\ gt.left = 1
  /\ Len(gt.out) = 2
  /\ gt.out[2].vals = <<3>>
  /\ gt.out[2].why = "end"

\* The producer has completed while the state was running, and the state is
\* still running.
CompletedRunning == state = "running" /\ done /\ ~producer.fails

\* A stop has just been processed in that situation.
StoppedAfterCompletion ==
  /\ state = "stopped"
  /\ ~producer.fails
  /\ last.cmd = "stop"
  /\ last.from = "running"
  /\ last.alive = 0

\* C36: the completion of the producer while running leaves the state
\* running with no live subscription, the sink without a completion and the
\* pipeline subscribed; a start processed then, or after a stop, subscribes
\* to the producer once more, and a producer that emits on subscription has
\* its values delivered again.
C36_RestartAfterCompletion ==
  /\ [](CompletedRunning =>
         Alive = 0 /\ inner = NoInner /\ completes = 0 /\ ~closed)
  /\ [][((CompletedRunning \/ StoppedAfterCompletion) /\ last'.cmd = "start")
        => /\ state' = "running"
           /\ ~closed'
           /\ last'.subscribed = 1
           /\ (producer.kind = "of" =>
                 received' = received \o producer.vals)
           /\ (producer.kind = "interval" =>
                 /\ inner' \in DOMAIN subs'
                 /\ subs'[inner'].count = 0
                 /\ ~done')]_vars

C36_Witness ==
  /\ producer = OfProducer(<<1, 2, 3>>)
  /\ last.cmd = "start"
  /\ last.from = "running"
  /\ last.alive = 0
  /\ last.subscribed = 1
  /\ state = "running"
  /\ ~closed
  /\ received = <<1, 2, 3, 1, 2, 3>>

\* C37: a pause or stop issued from inside the sink's value handler during a
\* synchronous run takes effect before the producer's next value: the reducer
\* sees running and moves to paused/stopped, the inner subscription of the run
\* is disposed, and the values after the one that triggered the call are not
\* delivered.
C37_ReentrantCutsTheRun ==
  [][(/\ Interrupted(producer, sink)
      /\ ~closed
      /\ last'.via \in {"method", "command"}
      /\ reducer(state, last'.cmd) = "running")
     => /\ state' = reducer("running", Calls(sink))
        /\ state' \in {"paused", "stopped"}
        /\ received' = received \o UpTo(producer.vals, CallsAt(sink))
        /\ last'.subscribed = 1
        /\ last'.disposed >= 1
        /\ Alive' = 0
        /\ inner' = NoInner]_vars

C37_Witness ==
  /\ producer = OfProducer(<<1, 2, 3>>)
  /\ sink = "pauseAt2"
  /\ last.cmd = "resume"
  /\ last.from = "paused"
  /\ last.subscribed = 1
  /\ last.disposed = 1
  /\ state = "paused"
  /\ received = <<1, 2, 1, 2>>

====
